---- MODULE Spec2Model ----
(***************************************************************************)
(* godsong: the two converters of TempleOS song strings,                   *)
(*   src/src/converters/godsong2lilypond.c  (conv = "ly")                  *)
(*   src/src/converters/godsong2pmx.c       (conv = "pmx")                 *)
(* (src/src/song2pmx.c is an older copy of the PMX converter whose         *)
(* write_note is the same code), and the generator of song strings,        *)
(*   src/src/generators/godsong.c.                                         *)
(*                                                                         *)
(* A behaviour of Spec is one run of one converter's main() on one input   *)
(* string.  SpecRead is read_godsong on an input stream, SpecGen is the    *)
(* generator followed by a converter that decodes what it printed,         *)
(* SpecRender is a converter on the strings of one note, and SpecTwoSongs  *)
(* is a caller that interleaves the write_note calls of two songs.         *)
(* A character is a one-character string, the input `str' is a sequence    *)
(* of characters, and a pointer into it is a 1-based index; index          *)
(* Len(str) + 1 is the terminating NUL.  Every fprintf/fputc to `dst' is   *)
(* one record appended to `out' (the call with its arguments), every       *)
(* fprintf to stderr one record appended to `err'.                         *)
(***************************************************************************)
EXTENDS Integers, Sequences, FiniteSets, TLC

VARIABLES
    conv,               \* which converter runs: "ly" or "pmx"
    str,                \* main: the string read_godsong returned (`song' of main)
    pc,                 \* position of the program
    next_note,          \* main: const char* next_note (NULL or an index)
    song,               \* write_note: its `song' parameter (an index)
    in_triplet,         \* godsong2lilypond.c write_note: static bool
    notes_in_triplet,   \* godsong2lilypond.c write_note: static int
    tie_status,         \* godsong2pmx.c write_note: static enum
    duration,           \* write_note: static const char* duration
    octave,             \* write_note: static int octave
    g_meter_top,        \* static int g_meter_top
    g_meter_bottom,     \* static int g_meter_bottom
    tie,                \* godsong2lilypond.c write_note: local
    dots,               \* godsong2lilypond.c write_note: local
    accidental,         \* write_note: local
    duration_modifier,  \* godsong2pmx.c write_note: local
    out,                \* what was written to dst
    err,                \* what was written to stderr
    sess,               \* SpecTwoSongs: the song that is not being decoded
    len,                \* godsong.c godsong: parameter
    complexity,         \* godsong.c godsong: parameter
    buf,                \* godsong.c godsong: what was written to char* buf
    buf_pos,            \* godsong.c godsong: int buf_pos
    iter,               \* godsong.c godsong: the `i' of the for loop
    last_duration,      \* godsong.c godsong: uint8_t last_duration
    g_octave_old,       \* godsong.c: static uint64_t g_octave_old
    nread,              \* read_godsong: the characters fgetc has returned
    str_pos,            \* read_godsong: size_t str_pos
    str_sz              \* read_godsong: size_t str_sz (0: str is NULL)

vars == << conv, str, pc, next_note, song, in_triplet, notes_in_triplet,
           tie_status, duration, octave, g_meter_top, g_meter_bottom, tie,
           dots, accidental, duration_modifier, out, err, sess, len,
           complexity, buf, buf_pos, iter, last_duration, g_octave_old,
           nread, str_pos, str_sz >>

\* the variables of the generator and those of read_godsong
genvars == << len, complexity, buf, buf_pos, iter, last_duration, g_octave_old >>
readvars == << nread, str_pos, str_sz >>

\* the variables of write_note and of the loop of main
convvars == << next_note, song, in_triplet, notes_in_triplet, tie_status,
               duration, octave, g_meter_top, g_meter_bottom, tie, dots,
               accidental, duration_modifier >>

-----------------------------------------------------------------------------
(* Bounds of the model: the longest input of each family of inputs.        *)

MaxLen == 2
MaxPersistLen == 4
MaxTripletLen == 6
MaxTieLen == 5
MaxDotLen == 4
MaxMeterLen == 4
MaxErrLen == 4
MaxAccLen == 4
MaxOctLen == 4
MaxMeterPairLen == 4
MaxTwoLen == 2

(* The characters the inputs are made of.                                  *)
AllChars ==
    { "(", "M", "/", "0", "3", "5", "8", ".", "t", "q", "e", "#", "b",
      "C", "D", "c", "R", "Z", "\n" }
PersistChars == { "3", "5", "q", "e", "C", "\n" }
TripletChars == { "t", "q", "C", "\n" }
TieChars == { "(", "C", "\n" }
DotChars == { ".", "t", "C", "\n" }
MeterChars == { "M", "/", "3", "8", "C", "\n" }
ErrChars == { "C", "D", "Z", "\n" }
AccChars == { "#", "b", "C", "\n" }
OctChars == { "0", "8", "3", "C" }
MeterPairChars == { "M", "3", "5", "C" }
TwoChars == { "5", "e", "C", "\n" }

Strings(chars, n) == UNION { [1..k -> chars] : k \in 1..n }

-----------------------------------------------------------------------------
(* C constants and library functions.                                      *)

NULL == 0
NUL == "NUL"
ABORT == "abort()"

TIE_STATUS_NONE == 0
TIE_STATUS_CLOSE == 1
TIE_STATUS_OPEN == 2

Digits == { "0", "1", "2", "3", "4", "5", "6", "7", "8", "9" }

isdigit(c) == c \in Digits

\* *song - '0'
DigitValue(c) ==
    CASE c = "0" -> 0 [] c = "1" -> 1 [] c = "2" -> 2 [] c = "3" -> 3
      [] c = "4" -> 4 [] c = "5" -> 5 [] c = "6" -> 6 [] c = "7" -> 7
      [] c = "8" -> 8 [] c = "9" -> 9

tolower(c) ==
    CASE c = "A" -> "a" [] c = "B" -> "b" [] c = "C" -> "c" [] c = "D" -> "d"
      [] c = "E" -> "e" [] c = "F" -> "f" [] c = "G" -> "g" [] OTHER -> c

\* *p for a pointer p into the string of main
CharAt(p) == IF p \in 1..Len(str) THEN str[p] ELSE NUL

-----------------------------------------------------------------------------
(* Helpers of the converters.                                              *)

is_duration_specifier(c) ==
    c = "w" \/ c = "w" \/ c = "h" \/ c = "q" \/ c = "e" \/ c = "s"

get_lilypond_duration(c) ==
    CASE c = "w" -> "1" [] c = "h" -> "2" [] c = "q" -> "4" [] c = "e" -> "8"
      [] c = "s" -> "16" [] OTHER -> ABORT

get_pmx_duration(c) ==
    CASE c = "w" -> "0" [] c = "h" -> "2" [] c = "q" -> "4" [] c = "e" -> "8"
      [] c = "s" -> "1" [] OTHER -> ABORT

is_duration_modifier(c) == c = "t" \/ c = "."

get_pmx_duration_modifier(c) ==
    CASE c = "t" -> "x3" [] c = "." -> "d" [] OTHER -> ABORT

is_accidental(c) == c = "#" \/ c = "b"

get_lilypond_accidental(c) ==
    CASE c = "#" -> "is" [] c = "b" -> "es" [] OTHER -> ABORT

get_pmx_accidental(c) ==
    CASE c = "#" -> "s" [] c = "b" -> "f" [] OTHER -> ABORT

\* get_lilypond_octave with octave 3 written as octave 4 is
OctaveThreeAsFour(o) ==
    CASE o = 1 -> ",," [] o = 2 -> "," [] o = 3 -> "'" [] o = 4 -> "'"
      [] o = 5 -> "''" [] o = 6 -> "'''" [] OTHER -> ABORT

get_lilypond_octave(o) ==
    CASE o = 1 -> ",," [] o = 2 -> "," [] o = 3 -> "" [] o = 4 -> "'"
      [] o = 5 -> "''" [] o = 6 -> "'''" [] OTHER -> ABORT


\* the characters of the strings that the "%s" of the note fprintf print
Chars(t) ==
    CASE t = "" -> << >>
      [] t = "is" -> << "i", "s" >> [] t = "es" -> << "e", "s" >>
      [] t = "s" -> << "s" >> [] t = "f" -> << "f" >>
      [] t = ",," -> << ",", "," >> [] t = "," -> << "," >>
      [] t = "'" -> << "'" >> [] t = "''" -> << "'", "'" >>
      [] t = "'''" -> << "'", "'", "'" >>
      [] t = "0" -> << "0" >> [] t = "1" -> << "1" >> [] t = "2" -> << "2" >>
      [] t = "4" -> << "4" >> [] t = "8" -> << "8" >>
      [] t = "16" -> << "1", "6" >>
      [] t = "." -> << "." >> [] t = "~" -> << "~" >>
      [] t = "x3" -> << "x", "3" >> [] t = "d" -> << "d" >>

\* what "%d" prints for an octave (a value of one digit)
DecimalChars(n) ==
    CASE n = 0 -> << "0" >> [] n = 1 -> << "1" >> [] n = 2 -> << "2" >>
      [] n = 3 -> << "3" >> [] n = 4 -> << "4" >> [] n = 5 -> << "5" >>
      [] n = 6 -> << "6" >> [] n = 7 -> << "7" >> [] n = 8 -> << "8" >>
      [] n = 9 -> << "9" >>

\* godsong2lilypond.c: the characters "%c%s%s%s%s%s" prints for a note
LyNoteText(note, acc, oct, dur, dts, t) ==
    << note >> \o Chars(acc) \o Chars(oct) \o Chars(dur) \o Chars(dts)
        \o Chars(t)

\* godsong2pmx.c: the characters "%c%s%d%s%s" prints for a note
PmxNoteText(note, dur, oct, mod, acc) ==
    << note >> \o Chars(dur) \o DecimalChars(oct) \o Chars(mod) \o Chars(acc)

\* InvalidNote with the upper limit 'Z' in place of 'G'
InvalidNoteAboveZ(c) ==
    c \notin { "A", "B", "C", "D", "E", "F", "G", "H", "I", "J", "K", "L", "M",
               "N", "O", "P", "Q", "R", "S", "T", "U", "V", "W", "X", "Y", "Z" }

\* InvalidNote with the letters a-g accepted as well
InvalidNoteEitherCase(c) ==
    c \notin { "A", "B", "C", "D", "E", "F", "G", "a", "b", "c", "d", "e", "f", "g" }

\* the test `*song < 'A' || *song > 'G'' that rejects the character at pitch
\* position
InvalidNote(c) == c \notin { "A", "B", "C", "D", "E", "F", "G" }

\* InvalidNoteResult with the offending character skipped and decoding resumed
InvalidNoteSkips(s) == s + 1

\* InvalidNoteResult with the cursor handed back where it was
InvalidNoteRetries(s) == s

\* what write_note returns after the "Invalid note" warning
InvalidNoteResult(s) == NULL

\* MeterToken with the bottom read without the isdigit test (a character that
\* is no digit gives a value that is no digit's)
MeterTokenBottomUnchecked(s, top, bottom) ==
    LET s1 == s + 1
        top1 == IF isdigit(CharAt(s1)) THEN DigitValue(CharAt(s1)) ELSE top
        s2 == IF isdigit(CharAt(s1)) THEN s1 + 1 ELSE s1
        s3 == IF CharAt(s2) = "/" THEN s2 + 1 ELSE s2
        bottom1 == IF isdigit(CharAt(s3)) THEN DigitValue(CharAt(s3)) ELSE -1
    IN  [song |-> s3 + 1, top |-> top1, bottom |-> bottom1]

\* MeterToken with the character after the top skipped without the '/' test
MeterTokenSlashUnchecked(s, top, bottom) ==
    LET s1 == s + 1
        top1 == IF isdigit(CharAt(s1)) THEN DigitValue(CharAt(s1)) ELSE top
        s2 == IF isdigit(CharAt(s1)) THEN s1 + 1 ELSE s1
        s3 == s2 + 1
        bottom1 == IF isdigit(CharAt(s3)) THEN DigitValue(CharAt(s3)) ELSE bottom
        s4 == IF isdigit(CharAt(s3)) THEN s3 + 1 ELSE s3
    IN  [song |-> s4, top |-> top1, bottom |-> bottom1]

\* MeterToken with the bottom read only after a '/'
MeterTokenNeedsSlash(s, top, bottom) ==
    LET s1 == s + 1
        top1 == IF isdigit(CharAt(s1)) THEN DigitValue(CharAt(s1)) ELSE top
        s2 == IF isdigit(CharAt(s1)) THEN s1 + 1 ELSE s1
        s3 == IF CharAt(s2) = "/" THEN s2 + 1 ELSE s2
        rd == CharAt(s2) = "/" /\ isdigit(CharAt(s3))
        bottom1 == IF rd THEN DigitValue(CharAt(s3)) ELSE bottom
        s4 == IF rd THEN s3 + 1 ELSE s3
    IN  [song |-> s4, top |-> top1, bottom |-> bottom1]

\* the 'M' branch of the loop of write_note, entered with *s = 'M': the new
\* pointer and the new meter
MeterToken(s, top, bottom) ==
    LET s1 == s + 1
        top1 == IF isdigit(CharAt(s1)) THEN DigitValue(CharAt(s1)) ELSE top
        s2 == IF isdigit(CharAt(s1)) THEN s1 + 1 ELSE s1
        s3 == IF CharAt(s2) = "/" THEN s2 + 1 ELSE s2
        bottom1 == IF isdigit(CharAt(s3)) THEN DigitValue(CharAt(s3)) ELSE bottom
        s4 == IF isdigit(CharAt(s3)) THEN s3 + 1 ELSE s3
    IN  [song |-> s4, top |-> top1, bottom |-> bottom1]

\* the characters one iteration of the loop of write_note consumes
LyPrefixToken(c) ==
    c = "(" \/ c = "M" \/ c = "." \/ c = "t" \/ isdigit(c)
    \/ is_duration_specifier(c) \/ is_accidental(c)

PmxPrefixToken(c) ==
    c = "(" \/ c = "M" \/ isdigit(c) \/ is_duration_specifier(c)
    \/ is_duration_modifier(c) \/ is_accidental(c)

\* OctaveToken with the digit forced into the octaves LilyPond can render
OctaveTokenClamped(c) ==
    IF DigitValue(c) < 1 THEN 1 ELSE IF DigitValue(c) > 6 THEN 6 ELSE DigitValue(c)

\* the digit branch of the loop of write_note: octave = *song - '0'
OctaveToken(c) == DigitValue(c)

\* InTripletAfter with a duration letter ending the triplet
InTripletClearedByDuration(c, in_t) ==
    IF c = "t" THEN TRUE ELSE IF is_duration_specifier(c) THEN FALSE ELSE in_t

\* InTripletAfter with 't' switching the triplet on and off
InTripletToggled(c, in_t) == IF c = "t" THEN ~in_t ELSE in_t

\* godsong2lilypond.c: in_triplet after the token c of the loop of write_note
\* (only the 't' branch assigns it)
InTripletAfter(c, in_t) == IF c = "t" THEN TRUE ELSE in_t

\* TripletOpens with a bracket opened before every note of a triplet
TripletOpensAlways(in_t, n) == in_t

\* godsong2lilypond.c: the tests that print "\tuplet 3/2 { " and "}"
TripletOpens(in_t, n) == in_t /\ n = 1

\* TripletCloses with the group closed one note early
TripletClosesAfterTwo(in_t, n) == in_t /\ n = 2

TripletCloses(in_t, n) == in_t /\ n = 3

\* godsong2pmx.c: the tie status after a note was printed
NextTieStatus(t) == IF t > TIE_STATUS_NONE THEN t - 1 ELSE t

-----------------------------------------------------------------------------
(* The inputs.  read_godsong drops every space but '\n', so the strings    *)
(* hold none; it returns a string only for a stream with at least one      *)
(* character kept, so the strings are not empty.                           *)

Inputs(cv) ==
    Strings(AllChars, MaxLen) \cup Strings(PersistChars, MaxPersistLen)
    \cup Strings(DotChars, MaxDotLen) \cup Strings(MeterChars, MaxMeterLen)
    \cup Strings(ErrChars, MaxErrLen) \cup Strings(AccChars, MaxAccLen)
    \cup Strings(OctChars, MaxOctLen)
    \cup Strings(MeterPairChars, MaxMeterPairLen)
    \cup (IF cv = "ly" THEN Strings(TripletChars, MaxTripletLen)
                       ELSE Strings(TieChars, MaxTieLen))

\* no second song
NoSession == "none"

\* the statics of godsong.c before godsong is called (no generator runs)
GenIdle ==
    /\ len = 0
    /\ complexity = 0
    /\ buf = << >>
    /\ buf_pos = 0
    /\ iter = 0
    /\ last_duration = 0
    /\ g_octave_old = 0

\* read_godsong: the number of bytes a reallocation adds to the buffer
AllocStep == 100

\* the statics and the locals of the converter when main enters its loop
MainStart ==
    /\ pc = "start"
    /\ next_note = 1
    /\ song = 1
    /\ in_triplet = FALSE
    /\ notes_in_triplet = 0
    /\ tie_status = TIE_STATUS_NONE
    /\ duration = ""
    /\ octave = 4
    /\ g_meter_top = 4
    /\ g_meter_bottom = 4
    /\ tie = ""
    /\ dots = ""
    /\ accidental = ""
    /\ duration_modifier = ""
    /\ out = << [k |-> "header", top |-> 4, bottom |-> 4] >>
    /\ err = << >>

\* main up to the loop: the string is read and the header is written
Init ==
    /\ conv \in { "ly", "pmx" }
    /\ str \in Inputs(conv)
    /\ MainStart
    /\ sess = NoSession
    /\ GenIdle
    /\ nread = Len(str)
    /\ str_pos = Len(str)
    /\ str_sz = AllocStep

-----------------------------------------------------------------------------
(* godsong2lilypond.c                                                      *)

\* LyCall with `accidental' static: kept from the call before
LyCallKeepsAccidental ==
    /\ conv = "ly"
    /\ pc \in { "start", "returned" }
    /\ next_note # NULL
    /\ ~(pc = "returned" /\ CharAt(next_note) = "\n")
    /\ song' = next_note
    /\ IF CharAt(next_note) = NUL
         THEN /\ next_note' = NULL
              /\ pc' = "returned"
              /\ UNCHANGED << tie, dots >>
         ELSE /\ pc' = "prefix"
              /\ tie' = ""
              /\ dots' = ""
              /\ UNCHANGED next_note
    /\ UNCHANGED << sess, genvars, readvars >>
    /\ UNCHANGED << conv, str, in_triplet, notes_in_triplet, tie_status,
                    duration, octave, g_meter_top, g_meter_bottom, accidental,
                    duration_modifier, out, err >>

\* main calls write_note(dst, next_note): the test of the while loop, the
\* call, the test for the end of the string and the initialisation of the
\* locals
LyCall ==
    /\ conv = "ly"
    /\ pc \in { "start", "returned" }
    /\ next_note # NULL
    /\ ~(pc = "returned" /\ CharAt(next_note) = "\n")
    /\ song' = next_note
    /\ IF CharAt(next_note) = NUL
         THEN /\ next_note' = NULL
              /\ pc' = "returned"
              /\ UNCHANGED << tie, dots, accidental >>
         ELSE /\ pc' = "prefix"
              /\ tie' = ""
              /\ dots' = ""
              /\ accidental' = ""
              /\ UNCHANGED next_note
    /\ UNCHANGED << sess, genvars, readvars >>
    /\ UNCHANGED << conv, str, in_triplet, notes_in_triplet, tie_status,
                    duration, octave, g_meter_top, g_meter_bottom,
                    duration_modifier, out, err >>

\* one iteration of the for loop of write_note that consumes a token (no
\* character passes two of the tests of the if/else-if chain)
LyPrefix ==
    /\ conv = "ly"
    /\ pc = "prefix"
    /\ LyPrefixToken(CharAt(song))
    /\ LET c == CharAt(song)
           m == MeterToken(song, g_meter_top, g_meter_bottom)
       IN  /\ song' = IF c = "M" THEN m.song ELSE song + 1
           /\ tie' = IF c = "(" THEN "~" ELSE tie
           /\ g_meter_top' = IF c = "M" THEN m.top ELSE g_meter_top
           /\ g_meter_bottom' = IF c = "M" THEN m.bottom ELSE g_meter_bottom
           /\ out' = IF c = "M"
                       THEN Append(out, [k |-> "meter", top |-> m.top,
                                         bottom |-> m.bottom])
                       ELSE out
           /\ dots' = IF c = "." THEN "." ELSE dots
           /\ in_triplet' = InTripletAfter(c, in_triplet)
           /\ octave' = IF isdigit(c)
                          THEN OctaveToken(c) ELSE octave
           /\ duration' = IF is_duration_specifier(c)
                            THEN get_lilypond_duration(c) ELSE duration
           /\ accidental' = IF is_accidental(c)
                              THEN get_lilypond_accidental(c) ELSE accidental
    /\ UNCHANGED << sess, genvars, readvars >>
    /\ UNCHANGED << conv, str, pc, next_note, notes_in_triplet, tie_status,
                    duration_modifier, err >>

\* the rest of write_note, from the break of the loop to the return
LyNote ==
    /\ conv = "ly"
    /\ pc = "prefix"
    /\ ~LyPrefixToken(CharAt(song))
    /\ LET c == CharAt(song)
           n == IF in_triplet THEN notes_in_triplet + 1 ELSE notes_in_triplet
           opened == IF TripletOpens(in_triplet, n)
                       THEN Append(out, [k |-> "tuplet_open"]) ELSE out
           oct == get_lilypond_octave(octave)
           printed == Append(opened,
                             [k |-> "note", note |-> tolower(c),
                              accidental |-> accidental, octave |-> oct,
                              duration |-> duration, dots |-> dots,
                              tie |-> tie,
                              text |-> LyNoteText(tolower(c), accidental, oct,
                                                  duration, dots, tie)])
           closed == IF TripletCloses(in_triplet, n)
                       THEN Append(printed, [k |-> "tuplet_close"])
                       ELSE printed
       IN  IF InvalidNote(c)
             THEN /\ err' = Append(err, [k |-> "invalid_note", c |-> c])
                  /\ next_note' = InvalidNoteResult(song)
                  /\ pc' = "returned"
                  /\ UNCHANGED << song, in_triplet, notes_in_triplet, out >>
             ELSE IF oct = ABORT
             THEN /\ err' = Append(err, [k |-> "invalid_octave",
                                         octave |-> octave])
                  /\ pc' = "aborted"
                  /\ song' = song + 1
                  /\ notes_in_triplet' = n
                  /\ out' = opened
                  /\ UNCHANGED << next_note, in_triplet >>
             ELSE /\ song' = song + 1
                  /\ next_note' = song + 1
                  /\ pc' = "returned"
                  /\ out' = Append(closed, [k |-> "space"])
                  /\ in_triplet' = IF TripletCloses(in_triplet, n)
                                     THEN FALSE ELSE in_triplet
                  /\ notes_in_triplet' = IF TripletCloses(in_triplet, n)
                                           THEN 0 ELSE n
                  /\ UNCHANGED err
    /\ UNCHANGED << sess, genvars, readvars >>
    /\ UNCHANGED << conv, str, tie_status, duration, octave, g_meter_top,
                    g_meter_bottom, tie, dots, accidental, duration_modifier >>

\* LyNewline with the octave back to its initial value on every new line
LyNewlineResets ==
    /\ conv = "ly"
    /\ pc = "returned"
    /\ next_note # NULL
    /\ CharAt(next_note) = "\n"
    /\ out' = Append(out, [k |-> "newline"])
    /\ next_note' = next_note + 1
    /\ octave' = 4
    /\ UNCHANGED << sess, genvars, readvars >>
    /\ UNCHANGED << conv, str, pc, song, in_triplet, notes_in_triplet,
                    tie_status, duration, g_meter_top, g_meter_bottom,
                    tie, dots, accidental, duration_modifier, err >>

\* one iteration of the inner while loop of main
LyNewline ==
    /\ conv = "ly"
    /\ pc = "returned"
    /\ next_note # NULL
    /\ CharAt(next_note) = "\n"
    /\ out' = Append(out, [k |-> "newline"])
    /\ next_note' = next_note + 1
    /\ UNCHANGED << sess, genvars, readvars >>
    /\ UNCHANGED << conv, str, pc, song, in_triplet, notes_in_triplet,
                    tie_status, duration, octave, g_meter_top, g_meter_bottom,
                    tie, dots, accidental, duration_modifier, err >>

\* the loop of main ends: write_lilypond_footer, free, return 0
LyFooter ==
    /\ conv = "ly"
    /\ pc = "returned"
    /\ next_note = NULL
    /\ out' = Append(out, [k |-> "footer"])
    /\ pc' = "done"
    /\ UNCHANGED << sess, genvars, readvars >>
    /\ UNCHANGED << conv, str, next_note, song, in_triplet, notes_in_triplet,
                    tie_status, duration, octave, g_meter_top, g_meter_bottom,
                    tie, dots, accidental, duration_modifier, err >>

-----------------------------------------------------------------------------
(* godsong2pmx.c                                                           *)

\* PmxCall with `duration' and `octave' not static: initialised by every call
PmxCallNotStatic ==
    /\ conv = "pmx"
    /\ pc \in { "start", "returned" }
    /\ next_note # NULL
    /\ ~(pc = "returned" /\ CharAt(next_note) = "\n")
    /\ song' = next_note
    /\ IF CharAt(next_note) = NUL
         THEN /\ next_note' = NULL
              /\ pc' = "returned"
              /\ UNCHANGED << duration_modifier, accidental, duration, octave >>
         ELSE /\ pc' = "prefix"
              /\ duration_modifier' = ""
              /\ accidental' = ""
              /\ duration' = ""
              /\ octave' = 4
              /\ UNCHANGED next_note
    /\ UNCHANGED << sess, genvars, readvars >>
    /\ UNCHANGED << conv, str, in_triplet, notes_in_triplet, tie_status,
                    g_meter_top, g_meter_bottom, tie, dots, out, err >>

\* main calls write_note(dst, next_note), as in LyCall
PmxCall ==
    /\ conv = "pmx"
    /\ pc \in { "start", "returned" }
    /\ next_note # NULL
    /\ ~(pc = "returned" /\ CharAt(next_note) = "\n")
    /\ song' = next_note
    /\ IF CharAt(next_note) = NUL
         THEN /\ next_note' = NULL
              /\ pc' = "returned"
              /\ UNCHANGED << duration_modifier, accidental >>
         ELSE /\ pc' = "prefix"
              /\ duration_modifier' = ""
              /\ accidental' = ""
              /\ UNCHANGED next_note
    /\ UNCHANGED << sess, genvars, readvars >>
    /\ UNCHANGED << conv, str, in_triplet, notes_in_triplet, tie_status,
                    duration, octave, g_meter_top, g_meter_bottom, tie, dots,
                    out, err >>

PmxPrefix ==
    /\ conv = "pmx"
    /\ pc = "prefix"
    /\ PmxPrefixToken(CharAt(song))
    /\ LET c == CharAt(song)
           m == MeterToken(song, g_meter_top, g_meter_bottom)
       IN  /\ song' = IF c = "M" THEN m.song ELSE song + 1
           /\ tie_status' = IF c = "(" THEN TIE_STATUS_OPEN ELSE tie_status
           /\ g_meter_top' = IF c = "M" THEN m.top ELSE g_meter_top
           /\ g_meter_bottom' = IF c = "M" THEN m.bottom ELSE g_meter_bottom
           /\ out' = IF c = "M"
                       THEN Append(out, [k |-> "meter", top |-> m.top,
                                         bottom |-> m.bottom])
                       ELSE out
           /\ octave' = IF isdigit(c)
                          THEN OctaveToken(c) ELSE octave
           /\ duration' = IF is_duration_specifier(c)
                            THEN get_pmx_duration(c) ELSE duration
           /\ duration_modifier' = IF is_duration_modifier(c)
                                     THEN get_pmx_duration_modifier(c)
                                     ELSE duration_modifier
           /\ accidental' = IF is_accidental(c)
                              THEN get_pmx_accidental(c) ELSE accidental
    /\ UNCHANGED << sess, genvars, readvars >>
    /\ UNCHANGED << conv, str, pc, next_note, in_triplet, notes_in_triplet,
                    tie, dots, err >>

PmxNote ==
    /\ conv = "pmx"
    /\ pc = "prefix"
    /\ ~PmxPrefixToken(CharAt(song))
    /\ LET c == CharAt(song)
           opened == IF tie_status = TIE_STATUS_OPEN
                       THEN Append(out, [k |-> "tie_open"]) ELSE out
           printed == Append(opened,
                             [k |-> "note", note |-> tolower(c),
                              duration |-> duration, octave |-> octave,
                              duration_modifier |-> duration_modifier,
                              accidental |-> accidental,
                              text |-> PmxNoteText(tolower(c), duration, octave,
                                                   duration_modifier,
                                                   accidental)])
           closed == IF tie_status = TIE_STATUS_CLOSE
                       THEN Append(printed, [k |-> "tie_close"])
                       ELSE printed
       IN  IF InvalidNote(c)
             THEN /\ err' = Append(err, [k |-> "invalid_note", c |-> c])
                  /\ next_note' = InvalidNoteResult(song)
                  /\ pc' = "returned"
                  /\ UNCHANGED << song, tie_status, out >>
             ELSE /\ song' = song + 1
                  /\ next_note' = song + 1
                  /\ pc' = "returned"
                  /\ out' = Append(closed, [k |-> "space"])
                  /\ tie_status' = NextTieStatus(tie_status)
                  /\ UNCHANGED err
    /\ UNCHANGED << sess, genvars, readvars >>
    /\ UNCHANGED << conv, str, in_triplet, notes_in_triplet, duration, octave,
                    g_meter_top, g_meter_bottom, tie, dots, accidental,
                    duration_modifier >>

PmxNewline ==
    /\ conv = "pmx"
    /\ pc = "returned"
    /\ next_note # NULL
    /\ CharAt(next_note) = "\n"
    /\ out' = Append(out, [k |-> "staff"])
    /\ next_note' = next_note + 1
    /\ UNCHANGED << sess, genvars, readvars >>
    /\ UNCHANGED << conv, str, pc, song, in_triplet, notes_in_triplet,
                    tie_status, duration, octave, g_meter_top, g_meter_bottom,
                    tie, dots, accidental, duration_modifier, err >>

\* the loop of main ends: fputc('\n', dst), free, return 0
PmxFooter ==
    /\ conv = "pmx"
    /\ pc = "returned"
    /\ next_note = NULL
    /\ out' = Append(out, [k |-> "footer"])
    /\ pc' = "done"
    /\ UNCHANGED << sess, genvars, readvars >>
    /\ UNCHANGED << conv, str, next_note, song, in_triplet, notes_in_triplet,
                    tie_status, duration, octave, g_meter_top, g_meter_bottom,
                    tie, dots, accidental, duration_modifier, err >>

-----------------------------------------------------------------------------

Next ==
    \/ LyCall
    \/ LyPrefix
    \/ LyNote
    \/ LyNewline
    \/ LyFooter
    \/ PmxCall
    \/ PmxPrefix
    \/ PmxNote
    \/ PmxNewline
    \/ PmxFooter

Spec == Init /\ [][Next]_vars

\* the strings of one note with its octave digit, its duration letter and at
\* most one more modifier before it, and at most a line break after it
RenderModifiers == { << >>, << "#" >>, << "b" >>, << "." >>, << "(" >>, << "t" >> }

RenderInputs ==
    { << o, d >> \o x \o << p >> \o y :
        o \in { "1", "2", "3", "4", "5", "6" },
        d \in { "w", "h", "q", "e", "s" },
        x \in RenderModifiers,
        p \in { "A", "B", "C", "D", "E", "F", "G" },
        y \in { << >>, << "\n" >> } }

InitRender ==
    /\ conv \in { "ly", "pmx" }
    /\ str \in RenderInputs
    /\ MainStart
    /\ sess = NoSession
    /\ GenIdle
    /\ nread = Len(str)
    /\ str_pos = Len(str)
    /\ str_sz = AllocStep

SpecRender == InitRender /\ [][Next]_vars

-----------------------------------------------------------------------------
(* read_godsong (the same function in both converters)                     *)

\* the longest stream read: one character more than fills the first block
MaxStreamLen == 101

\* the characters of the stream: one that is stored, one that is skipped
StreamChars == { "C", " " }

\* main before read_godsong reads the first character: the buffer is NULL
InitRead ==
    /\ conv \in { "ly", "pmx" }
    /\ pc = "read"
    /\ str = << >>
    /\ str_pos = 0
    /\ str_sz = 0
    /\ nread = 0
    /\ next_note = 1
    /\ song = 1
    /\ in_triplet = FALSE
    /\ notes_in_triplet = 0
    /\ tie_status = TIE_STATUS_NONE
    /\ duration = ""
    /\ octave = 4
    /\ g_meter_top = 4
    /\ g_meter_bottom = 4
    /\ tie = ""
    /\ dots = ""
    /\ accidental = ""
    /\ duration_modifier = ""
    /\ out = << >>
    /\ err = << >>
    /\ sess = NoSession
    /\ GenIdle

\* isspace of <ctype.h> on the characters of the streams
isspace(c) == c \in { " ", "\n" }

\* "if (str_pos + 1 >= str_sz)": the buffer has to grow before the store
MustGrow(pos, sz) == pos + 1 >= sz

\* fgetc returns a space other than '\n': the iteration stores nothing
ReadSkip ==
    /\ pc = "read"
    /\ nread < MaxStreamLen
    /\ \E c \in StreamChars :
          /\ c # "\n" /\ isspace(c)
          /\ nread' = nread + 1
    /\ UNCHANGED << conv, str, pc, str_pos, str_sz, convvars, out, err, sess,
                    genvars >>

\* fgetc returns a character that is stored, after realloc gave a larger
\* buffer where one was needed
ReadStore ==
    /\ pc = "read"
    /\ nread < MaxStreamLen
    /\ \E c \in StreamChars :
          /\ ~(c # "\n" /\ isspace(c))
          /\ nread' = nread + 1
          /\ str_sz' = IF MustGrow(str_pos, str_sz) THEN str_sz + AllocStep
                       ELSE str_sz
          /\ str' = Append(str, c)
          /\ str_pos' = str_pos + 1
    /\ UNCHANGED << conv, pc, convvars, out, err, sess, genvars >>

\* realloc returns NULL: the buffer is freed, read_godsong returns NULL and
\* main reports it and returns 1
ReadAllocFail ==
    /\ pc = "read"
    /\ nread < MaxStreamLen
    /\ \E c \in StreamChars : ~(c # "\n" /\ isspace(c))
    /\ MustGrow(str_pos, str_sz)
    /\ nread' = nread + 1
    /\ str' = << >>
    /\ pc' = "read_failed"
    /\ err' = Append(err, [k |-> "could_not_read"])
    /\ UNCHANGED << conv, str_pos, str_sz, convvars, out, sess, genvars >>

\* fgetc returns EOF: the loop is left and "str[str_pos] = '\0'" is
\* executed. With a buffer the string is returned and main writes the
\* header; with str still NULL the store is undefined: the process is
\* killed, or it goes on and main finds the NULL that is returned
ReadEOF ==
    /\ pc = "read"
    /\ IF str_sz > 0
         THEN /\ pc' = "start"
              /\ out' = << [k |-> "header", top |-> 4, bottom |-> 4] >>
              /\ UNCHANGED err
         ELSE \/ /\ pc' = "crashed"
                 /\ UNCHANGED << out, err >>
              \/ /\ pc' = "read_null"
                 /\ err' = Append(err, [k |-> "could_not_read"])
                 /\ UNCHANGED out
    /\ UNCHANGED << conv, str, readvars, convvars, sess, genvars >>

NextRead ==
    \/ ReadSkip
    \/ ReadStore
    \/ ReadAllocFail
    \/ ReadEOF

SpecRead == InitRead /\ [][NextRead]_vars

-----------------------------------------------------------------------------
(* godsong.c: the generator, and the converter run on the song it prints   *)

DUR_4 == 0
DUR_8_8 == 1
DUR_3_3_3 == 2
DUR_16_16_16_16 == 3
DUR_8DOT_16 == 4
DUR_8_16_16 == 5
DUR_16_16_8 == 6

god_simple_songs == << DUR_4, DUR_4, DUR_4, DUR_4, DUR_8_8 >>

god_normal_songs == << DUR_4, DUR_4, DUR_8_8, DUR_3_3_3, DUR_16_16_16_16 >>

god_complex_songs ==
    << DUR_4, DUR_4, DUR_8_8, DUR_8_8, DUR_8DOT_16, DUR_3_3_3, DUR_8_16_16,
       DUR_16_16_8, DUR_16_16_16_16 >>

\* a generator that uses rests
UseRestsEnabled == TRUE

g_use_rests == FALSE

g_octave == 4

\* "uint8_t last_duration = -1"
NoDuration == 255

\* "calloc(256, sizeof(char))": the bytes of the buffer, all zero
BufSize == 256

\* the iterations of the loop in which godbits returns any of the values
\* below; in the later ones it returns the value TailRandoms has for the
\* iteration
MaxFreeIter == 1

\* values of godbits(8): every index of every table is selected by one
DurationRandoms == 0..8

\* values of godbits(4): 0 gives 'G' in octave 4 (a rest where rests are
\* used), 6 gives 'C' in octave 5
NoteRandoms == { 0, 6 }

\* the values godbits returns in the iterations after the free ones
TailRandoms == << 5, 5, 2, 7, 3, 8, 6, 4 >>

Godbits8(it) == IF it < MaxFreeIter THEN DurationRandoms ELSE { TailRandoms[it + 1] }

Godbits4(it) == IF it < MaxFreeIter THEN NoteRandoms ELSE { TailRandoms[it + 1] }

octave2char(o) == DecimalChars(o)[1]

\* "random % LENGTH(table)" on a table indexed from 0
get_duration(cx, random) ==
    CASE cx = 0 -> god_simple_songs[(random % Len(god_simple_songs)) + 1]
      [] cx = 1 -> god_normal_songs[(random % Len(god_normal_songs)) + 1]
      [] cx = 2 -> god_complex_songs[(random % Len(god_complex_songs)) + 1]

\* a store that writes a space after every character
PutWithSeparator(st, c) == [st EXCEPT !.buf = Append(Append(@, c), " ")]

\* "buf[buf_pos++] = c" on the buffer and the octave written last
Put(st, c) == [st EXCEPT !.buf = Append(@, c)]

\* "random - 1 + 'A'" for random 1..7
LetterFromA(random) == << "A", "B", "C", "D", "E", "F", "G" >>[random]

insert_note(st, random) ==
    IF random = 0 /\ g_use_rests
      THEN Put(st, "R")
      ELSE LET r == random \div 2
               o == IF r < 3 THEN g_octave ELSE g_octave + 1
               w == IF st.old # o
                      THEN [Put(st, octave2char(o)) EXCEPT !.old = o]
                      ELSE st
           IN  Put(w, IF r = 0 THEN "G" ELSE LetterFromA(r))

\* the body of the switch for the duration d after last, with the values r
\* of the calls of godbits(4) in their order; the last field is the value
\* assigned to last_duration
GenSwitch(st, last, d, r) ==
    CASE d = DUR_8_8 ->
           LET a == IF last # DUR_8_8 THEN Put(st, "e") ELSE st
           IN  [st |-> insert_note(insert_note(a, r[1]), r[2]), last |-> d]
      [] d = DUR_8DOT_16 ->
           LET a == insert_note(Put(Put(st, "e"), "."), r[1])
           IN  [st |-> insert_note(Put(a, "s"), r[2]),
                last |-> DUR_16_16_16_16]
      [] d = DUR_3_3_3 ->
           LET a == IF last # DUR_3_3_3 THEN Put(Put(st, "e"), "t") ELSE st
           IN  [st |-> insert_note(insert_note(insert_note(a, r[1]), r[2]),
                                   r[3]),
                last |-> d]
      [] d = DUR_8_16_16 ->
           LET a == IF last # DUR_8_8 THEN Put(st, "e") ELSE st
               b == Put(insert_note(a, r[1]), "s")
           IN  [st |-> insert_note(insert_note(b, r[2]), r[3]),
                last |-> DUR_16_16_16_16]
      [] d = DUR_16_16_8 ->
           LET a == IF last # DUR_16_16_16_16 THEN Put(st, "s") ELSE st
               b == Put(insert_note(insert_note(a, r[1]), r[2]), "e")
           IN  [st |-> insert_note(b, r[3]), last |-> DUR_8_8]
      [] d = DUR_16_16_16_16 ->
           LET a == IF last # DUR_16_16_16_16 THEN Put(st, "s") ELSE st
               b == insert_note(insert_note(a, r[1]), r[2])
           IN  [st |-> insert_note(insert_note(b, r[1]), r[2]), last |-> d]
      [] OTHER ->
           LET a == IF last # DUR_4 THEN Put(st, "q") ELSE st
           IN  [st |-> insert_note(a, r[1]), last |-> d]

\* godsong(len, complexity) when it enters its loop, in the generator's
\* process; the converter is not started
InitGen ==
    /\ conv \in { "ly", "pmx" }
    /\ len \in { 6, 8 }
    /\ complexity \in 0..2
    /\ g_octave_old = g_octave + 1
    /\ buf = << octave2char(g_octave + 1) >>
                 \o (IF len = 6 THEN << "M", "6", "/", "8" >> ELSE << >>)
    /\ buf_pos = Len(buf)
    /\ iter = 0
    /\ last_duration = NoDuration
    /\ pc = "gen"
    /\ str = << >>
    /\ nread = 0
    /\ str_pos = 0
    /\ str_sz = 0
    /\ next_note = 1
    /\ song = 1
    /\ in_triplet = FALSE
    /\ notes_in_triplet = 0
    /\ tie_status = TIE_STATUS_NONE
    /\ duration = ""
    /\ octave = 4
    /\ g_meter_top = 4
    /\ g_meter_bottom = 4
    /\ tie = ""
    /\ dots = ""
    /\ accidental = ""
    /\ duration_modifier = ""
    /\ out = << >>
    /\ err = << >>
    /\ sess = NoSession

\* one iteration of the loop of godsong
GenIteration ==
    /\ pc = "gen"
    /\ iter < len
    /\ \E random \in Godbits8(iter), r \in [1..3 -> Godbits4(iter)] :
          LET d == get_duration(complexity, random)
              g == GenSwitch([buf |-> buf, old |-> g_octave_old],
                             last_duration, d, r)
          IN  /\ buf' = g.st.buf
              /\ buf_pos' = Len(g.st.buf)
              /\ g_octave_old' = g.st.old
              /\ last_duration' = g.last
    /\ iter' = iter + 1
    /\ UNCHANGED << conv, str, pc, len, complexity, readvars, convvars, out,
                    err, sess >>

\* the loop is left: godsong returns the buffer, main prints it with "%s\n",
\* and the converter reads that line and writes its header
GenReturn ==
    /\ pc = "gen"
    /\ iter = len
    /\ str' = Append(buf, "\n")
    /\ nread' = Len(buf) + 1
    /\ str_pos' = Len(buf) + 1
    /\ str_sz' = AllocStep
    /\ pc' = "start"
    /\ out' = << [k |-> "header", top |-> 4, bottom |-> 4] >>
    /\ UNCHANGED << conv, genvars, convvars, err, sess >>

NextGen ==
    \/ GenIteration
    \/ GenReturn
    \/ Next

SpecGen == InitGen /\ [][NextGen]_vars

-----------------------------------------------------------------------------
(* What the properties speak of.                                           *)
(*                                                                         *)
(* The loop of write_note consumes no letter A-G, and main stops at the    *)
(* first NULL, so the k-th note written is the k-th letter A-G of the      *)
(* input; the prefix of a note is what lies between it and the note        *)
(* before.                                                                 *)

PitchLetters == { "A", "B", "C", "D", "E", "F", "G" }
DurationLetters == { "w", "h", "q", "e", "s" }

Max(S) == CHOOSE x \in S : \A y \in S : y <= x

IsNote(f) == f.k = "note"

\* the notes written so far, in the order written
OutNotes == SelectSeq(out, IsNote)

\* the number of letters A-G before position p
NotesBefore(p) == Cardinality({ i \in 1..Len(str) : i < p /\ str[i] \in PitchLetters })

\* the position in the input of the k-th letter A-G
NotePos(k) ==
    CHOOSE i \in 1..Len(str) : str[i] \in PitchLetters /\ NotesBefore(i) = k - 1

\* the index in out of the k-th note written
NoteIndex(k) ==
    CHOOSE j \in 1..Len(out) :
        /\ out[j].k = "note"
        /\ Cardinality({ i \in 1..j : out[i].k = "note" }) = k

\* the positions of the prefix of the k-th note
PrefixOf(k) == { i \in 1..Len(str) : i < NotePos(k) /\ (k > 1 => i > NotePos(k - 1)) }

\* position i holds a digit that belongs to a meter token "M[d][/][d]"
IsMeterDigit(i) ==
    /\ CharAt(i) \in Digits
    /\ \/ CharAt(i - 1) = "M"
       \/ CharAt(i - 1) = "/" /\ CharAt(i - 2) = "M"
       \/ CharAt(i - 1) \in Digits /\ CharAt(i - 2) = "M"
       \/ CharAt(i - 1) = "/" /\ CharAt(i - 2) \in Digits /\ CharAt(i - 3) = "M"

\* position i holds a digit that sets the octave
IsOctaveDigit(i) == CharAt(i) \in Digits /\ ~IsMeterDigit(i)

\* the octave in effect at position p: the last octave digit before p, or 4
OctaveAt(p) ==
    LET ds == { i \in 1..Len(str) : i < p /\ IsOctaveDigit(i) }
    IN  IF ds = {} THEN 4 ELSE DigitValue(str[Max(ds)])

\* the duration letter in effect at position p, or NUL when there is none
DurationLetterAt(p) ==
    LET ds == { i \in 1..Len(str) : i < p /\ str[i] \in DurationLetters }
    IN  IF ds = {} THEN NUL ELSE str[Max(ds)]

-----------------------------------------------------------------------------
(* C1: in both converters every note written carries the octave of the     *)
(* last octave digit before it in the input (4 when there is none) and the *)
(* duration of the last duration letter w/h/q/e/s before it; a note whose  *)
(* own prefix holds no octave digit has the octave of the note before it,  *)
(* and one whose prefix holds no duration letter has its duration.         *)
C1_OctaveDurationPersist ==
    /\ Len(OutNotes) <= NotesBefore(Len(str) + 1)
    /\ \A k \in 1..Len(OutNotes) :
        LET p == NotePos(k)
            o == OctaveAt(p)
            d == DurationLetterAt(p)
        IN  /\ OutNotes[k].note = tolower(str[p])
            /\ OutNotes[k].octave =
                   (IF conv = "ly" THEN get_lilypond_octave(o) ELSE o)
            /\ OutNotes[k].duration =
                   (IF d = NUL THEN ""
                    ELSE IF conv = "ly" THEN get_lilypond_duration(d)
                    ELSE get_pmx_duration(d))
            /\ (k > 1 /\ \A i \in PrefixOf(k) : ~IsOctaveDigit(i))
                   => OutNotes[k].octave = OutNotes[k - 1].octave
            /\ (k > 1 /\ \A i \in PrefixOf(k) : str[i] \notin DurationLetters)
                   => OutNotes[k].duration = OutNotes[k - 1].duration

\* a second note with no octave digit and no duration letter of its own was
\* written after a first one that had set both
C1_Witness ==
    /\ pc = "done"
    /\ Len(OutNotes) >= 2
    /\ \A i \in PrefixOf(2) : ~IsOctaveDigit(i) /\ str[i] \notin DurationLetters
    /\ OctaveAt(NotePos(1)) # 4
    /\ DurationLetterAt(NotePos(1)) # NUL

-----------------------------------------------------------------------------
(* Tuplet brackets of the LilyPond output.                                 *)

\* the number of fragments of kind kd among the first j of out
CountUpTo(kd, j) == Cardinality({ i \in 1..Len(out) : i <= j /\ out[i].k = kd })

\* after the k-th note was written a tuplet bracket is open
GroupInProgressAfter(k) ==
    /\ k > 0
    /\ CountUpTo("tuplet_open", NoteIndex(k))
           > CountUpTo("tuplet_close", NoteIndex(k) + 1)

\* the three notes after position i are one group, and the fourth is in none
\* unless its prefix holds a 't'
TripletAfter(i) ==
    LET k == NotesBefore(i)
        a == NoteIndex(k + 1)
        c == NoteIndex(k + 3)
        d == NoteIndex(k + 4)
    IN  /\ out[a - 1].k = "tuplet_open"
        /\ c < Len(out) /\ out[c + 1].k = "tuplet_close"
        /\ \A j \in a..c : out[j].k \notin { "tuplet_open", "tuplet_close" }
        /\ (Len(OutNotes) >= k + 4 /\ \A j \in PrefixOf(k + 4) : str[j] # "t")
               => /\ out[d - 1].k # "tuplet_open"
                  /\ d < Len(out) /\ out[d + 1].k # "tuplet_close"

(* C2, as claimed: in the LilyPond converter the three notes decoded after *)
(* any 't' token form exactly one triplet group, opened right before the   *)
(* first and closed right after the third, and the fourth note is outside  *)
(* any bracket unless a new 't' precedes it.                               *)
C2_AnyTripletToken ==
    conv = "ly" =>
        \A i \in 1..Len(str) :
            (str[i] = "t" /\ Len(OutNotes) >= NotesBefore(i) + 3)
                => TripletAfter(i)

(* C2, as amended: the same of every 't' token decoded while no triplet    *)
(* group is in progress (no tuplet bracket is open).                       *)
C2_TripletTokenOutsideGroup ==
    conv = "ly" =>
        \A i \in 1..Len(str) :
            (/\ str[i] = "t"
             /\ Len(OutNotes) >= NotesBefore(i) + 3
             /\ ~GroupInProgressAfter(NotesBefore(i)))
                => TripletAfter(i)

\* a 't' outside any group was followed by four notes, the fourth without 't'
C2_Witness ==
    /\ conv = "ly"
    /\ pc = "done"
    /\ \E i \in 1..Len(str) :
        /\ str[i] = "t"
        /\ Len(OutNotes) >= NotesBefore(i) + 4
        /\ ~GroupInProgressAfter(NotesBefore(i))
        /\ \A j \in PrefixOf(NotesBefore(i) + 4) : str[j] # "t"

(* C10, as claimed: when the input ends with no error, every tuplet        *)
(* bracket the LilyPond output opened has its own closing brace.           *)
C10_TupletClosedAtEnd ==
    (conv = "ly" /\ pc = "done" /\ err = << >>)
        => CountUpTo("tuplet_open", Len(out)) = CountUpTo("tuplet_close", Len(out))

-----------------------------------------------------------------------------
(* C3, as claimed: in the PMX converter a note is written with the opening *)
(* tie bracket exactly when its prefix holds '(', with the closing bracket *)
(* exactly when the prefix of the note before it holds '(', and the        *)
(* brackets opened and closed never differ by more than one.               *)
C3_TieClosedOneNoteLater ==
    conv = "pmx" =>
        /\ \A k \in 1..Len(OutNotes) :
            LET j == NoteIndex(k)
            IN  /\ (out[j - 1].k = "tie_open")
                       <=> (\E i \in PrefixOf(k) : str[i] = "(")
                /\ (j < Len(out) /\ out[j + 1].k = "tie_close")
                       <=> (k > 1 /\ \E i \in PrefixOf(k - 1) : str[i] = "(")
        /\ CountUpTo("tie_open", Len(out)) - CountUpTo("tie_close", Len(out))
               \in { 0, 1 }

-----------------------------------------------------------------------------
\* the note fragment f is rendered dotted
Dotted(f) ==
    \/ conv = "ly" /\ f.dots = "."
    \/ conv = "pmx" /\ f.duration_modifier = "d"

(* C4, as claimed: in both converters a note is rendered dotted exactly    *)
(* when its own prefix holds a '.'.                                        *)
C4_DotNextNoteOnly ==
    \A k \in 1..Len(OutNotes) :
        Dotted(OutNotes[k]) <=> (\E i \in PrefixOf(k) : str[i] = ".")

-----------------------------------------------------------------------------
(* Meter tokens.                                                           *)

\* the next step of write_note processes an 'M' token
AtMeterToken == pc = "prefix" /\ CharAt(song) = "M"

C9_MeterCursorAdvances ==
    [][AtMeterToken =>
        /\ song' > song
        /\ song' <= song + 4
        /\ song' <= Len(str) + 1
        /\ \A j \in (song + 1)..(song' - 1) : CharAt(j) \in Digits \cup { "/" }
        /\ CharAt(song + 1) \notin Digits \cup { "/" } => song' = song + 1
        /\ CharAt(song + 1) \in Digits \cup { "/" } => song' > song + 1
      ]_vars

\* an 'M' that ends the input was processed: the cursor is at the NUL
C9_Witness ==
    /\ pc = "prefix"
    /\ str[Len(str)] = "M"
    /\ song = Len(str) + 1
    /\ out[Len(out)].k = "meter"

-----------------------------------------------------------------------------
(* Decode errors.                                                          *)

\* the characters the loop of write_note accepts before the pitch
Modifiers == { "(", "M", ".", "t", "#", "b" } \cup Digits \cup DurationLetters

\* the "Invalid note" warning was written
ErrReported == err # << >> /\ err[Len(err)].k = "invalid_note"

\* write_note is at a character that is neither a modifier nor a pitch
AtUnrecognised == pc = "prefix" /\ CharAt(song) \notin Modifiers \cup PitchLetters

(* C6: a character at pitch position that is neither a modifier nor a      *)
(* letter A-G is reported and no note is written for it; the notes decoded *)
(* before it are in the output, in input order, and stay there.            *)
C6_ErrorKeepsEarlierNotes ==
    /\ [][AtUnrecognised =>
            /\ err' = Append(err, [k |-> "invalid_note", c |-> CharAt(song)])
            /\ out' = out]_vars
    /\ [](ErrReported =>
            /\ Len(OutNotes) = NotesBefore(song)
            /\ \A k \in 1..Len(OutNotes) :
                   OutNotes[k].note = tolower(str[NotePos(k)]))
    /\ [][ErrReported => OutNotes' = OutNotes]_vars

\* two notes were written, then a character was reported, and the run ended
C6_Witness ==
    /\ pc = "done"
    /\ ErrReported
    /\ Len(OutNotes) = 2
    /\ OutNotes[1].note # OutNotes[2].note

(* C7, as claimed: after a decode error the notes of the lines that follow *)
(* the offending line are still decoded and rendered.                      *)
C7_NextLinesDecoded ==
    (pc = "done" /\ ErrReported) =>
        \A q \in (song + 1)..Len(str) :
            (str[q] = "\n" /\ CharAt(q + 1) \in PitchLetters)
                => Len(OutNotes) >= NotesBefore(q + 2)

(* C7, as amended: a decode error ends the decoding of the whole input:    *)
(* write_note returns NULL, the loop of main stops, and no note at or      *)
(* after the offending character, on its line or on a later line, is       *)
(* written.                                                                *)
C7_ErrorEndsDecoding ==
    ErrReported =>
        /\ next_note = NULL
        /\ pc \in { "returned", "done" }
        /\ Len(err) = 1
        /\ Len(OutNotes) = NotesBefore(song)

\* the run ended after an error, with a note on a line after the error
C7_Witness ==
    /\ pc = "done"
    /\ ErrReported
    /\ \E q \in (song + 1)..Len(str) :
        str[q] = "\n" /\ CharAt(q + 1) \in PitchLetters

\* the position after the meter token "M[d][/][d]" that starts at position i
MeterEnd(i) ==
    LET b == IF CharAt(i + 1) \in Digits THEN i + 2 ELSE i + 1
        c == IF CharAt(b) = "/" THEN b + 1 ELSE b
    IN  IF CharAt(c) \in Digits THEN c + 1 ELSE c

(* C8, as claimed: a meter token directly followed by a line break or by   *)
(* the end of the input raises no decode error there, and a note that      *)
(* starts the following line is still decoded.                             *)
C8_MeterNeedsNoPitch ==
    \A i \in 1..Len(str) :
        (str[i] = "M" /\ i < song /\ CharAt(MeterEnd(i)) \in { "\n", NUL })
            => /\ ~(ErrReported /\ song = MeterEnd(i))
               /\ (pc = "done" /\ CharAt(MeterEnd(i) + 1) \in PitchLetters)
                      => Len(OutNotes) >= NotesBefore(MeterEnd(i) + 2)

-----------------------------------------------------------------------------
(* Line breaks.                                                            *)

\* the prefix of the k-th note holds a line break
AfterLineBreak(k) == \E i \in PrefixOf(k) : str[i] = "\n"

(* C11, as claimed: a line break closes what is open: in the LilyPond      *)
(* output no tuplet bracket is open where a line break is written, and in  *)
(* the PMX output no tie bracket is closed on a note that follows a line   *)
(* break.                                                                  *)
C11_LineBreakCloses ==
    /\ conv = "ly" =>
           \A j \in 1..Len(out) :
               out[j].k = "newline"
                   => CountUpTo("tuplet_open", j) = CountUpTo("tuplet_close", j)
    /\ conv = "pmx" =>
           \A k \in 1..Len(OutNotes) :
               AfterLineBreak(k)
                   => ~(NoteIndex(k) < Len(out)
                        /\ out[NoteIndex(k) + 1].k = "tie_close")

\* the next step of main skips a line break
AtLineBreak == pc = "returned" /\ next_note # NULL /\ CharAt(next_note) = "\n"

(* C12: a line break changes none of octave, duration and meter: skipping  *)
(* it leaves the three as they are, and a note after a line break whose    *)
(* prefix holds no octave digit (no duration letter) is written with the   *)
(* octave (the duration) of the note before it.                            *)
C12_LineBreakKeepsState ==
    /\ [][AtLineBreak =>
            UNCHANGED << octave, duration, g_meter_top, g_meter_bottom >>]_vars
    /\ [](\A k \in 2..Len(OutNotes) :
            AfterLineBreak(k) =>
                /\ (\A i \in PrefixOf(k) : ~IsOctaveDigit(i))
                       => OutNotes[k].octave = OutNotes[k - 1].octave
                /\ (\A i \in PrefixOf(k) : str[i] \notin DurationLetters)
                       => OutNotes[k].duration = OutNotes[k - 1].duration)

\* a note that starts a line with no digit and no letter of its own was
\* written after a note of the line before, in an octave that is not 4
C12_Witness ==
    /\ pc = "done"
    /\ Len(OutNotes) >= 2
    /\ \A i \in PrefixOf(2) : str[i] = "\n"
    /\ PrefixOf(2) # {}
    /\ OctaveAt(NotePos(1)) # 4
    /\ OctaveAt(NotePos(1)) \in 1..6

-----------------------------------------------------------------------------
(* The state before the first token.                                       *)

\* the text of a quarter note's duration: what the letter 'q' sets
QuarterText ==
    IF conv = "ly" THEN get_lilypond_duration("q") ELSE get_pmx_duration("q")

(* C13, as claimed: before any token is decoded the octave is 4, the meter *)
(* 4/4, no tie is pending and no triplet is in progress, and the duration  *)
(* is that of a quarter note: a first note with no duration letter and no  *)
(* digit before it is written as a quarter note in octave 4.               *)
C13_InitialQuarter ==
    /\ pc = "start" =>
           /\ octave = 4
           /\ g_meter_top = 4 /\ g_meter_bottom = 4
           /\ tie_status = TIE_STATUS_NONE
           /\ ~in_triplet /\ notes_in_triplet = 0
    /\ (/\ Len(OutNotes) >= 1
        /\ \A i \in 1..(NotePos(1) - 1) : str[i] \notin Digits \cup DurationLetters)
           => /\ OutNotes[1].octave =
                     (IF conv = "ly" THEN get_lilypond_octave(4) ELSE 4)
              /\ OutNotes[1].duration = QuarterText

-----------------------------------------------------------------------------
(* The characters at pitch position.                                       *)

LowerPitchLetters == { "a", "b", "c", "d", "e", "f", "g" }

\* the lowercase letters a-g that are no modifier ('b' is the flat, 'e' the
\* eighth note)
LowerNoModifier == LowerPitchLetters \ Modifiers

(* C14, as claimed: a lowercase letter a-g at pitch position is decoded as *)
(* a pitch, never reported as an invalid note, and every pitch written is  *)
(* lowercase.                                                              *)
C14_EitherCase ==
    /\ ErrReported => CharAt(song) \notin LowerPitchLetters
    /\ \A k \in 1..Len(OutNotes) : OutNotes[k].note \in LowerPitchLetters

(* C14, as amended: only the capital letters A-G are decoded as pitches:   *)
(* the cursor never passes a lowercase a, c, d, f or g, which is reported  *)
(* as an invalid note and ends the decoding, no more notes are written     *)
(* than capital letters A-G were passed ('b' and 'e' are consumed as the   *)
(* flat and the eighth note), and every pitch written is the lowercase of  *)
(* its capital letter.                                                     *)
C14_CapitalsOnly ==
    /\ \A i \in 1..Len(str) : i < song => str[i] \notin LowerNoModifier
    /\ (next_note = NULL /\ CharAt(song) \in LowerNoModifier)
           => ErrReported /\ err[Len(err)].c = CharAt(song)
    /\ Len(OutNotes) <= NotesBefore(song)
    /\ \A k \in 1..Len(OutNotes) :
           /\ OutNotes[k].note \in LowerPitchLetters
           /\ OutNotes[k].note = tolower(str[NotePos(k)])

\* a note was written, then a lowercase 'c' at pitch position was reported
C14_Witness ==
    /\ pc = "done"
    /\ ErrReported
    /\ CharAt(song) = "c"
    /\ Len(OutNotes) >= 1

(* C15, as claimed: the rest marker 'R' at pitch position is consumed and  *)
(* decoded, never reported as an invalid note: the decoding does not end   *)
(* at an 'R'.                                                              *)
C15_RestDecoded ==
    /\ ErrReported => CharAt(song) # "R"
    /\ (next_note = NULL /\ pc \in { "returned", "done" }) => CharAt(song) # "R"

-----------------------------------------------------------------------------
(* Tokens decoded while a triplet group is in progress.                    *)

\* the token at position i is decoded while a group is in progress: a tuplet
\* bracket is open after the last note before it
MidGroup(i) ==
    /\ NotesBefore(i) \in 1..Len(OutNotes)
    /\ GroupInProgressAfter(NotesBefore(i))

\* the first note of the group in progress after the k-th note
GroupStart(k) ==
    Max({ g \in 1..k : out[NoteIndex(g) - 1].k = "tuplet_open" })

\* the group that starts with the g-th note closes right after its third
\* note, with no other bracket in between
ClosesAfterThird(g) ==
    LET a == NoteIndex(g)
        c == NoteIndex(g + 2)
    IN  /\ c < Len(out) /\ out[c + 1].k = "tuplet_close"
        /\ \A j \in a..c : out[j].k \notin { "tuplet_open", "tuplet_close" }

C17_TripletTokenMidGroup ==
    conv = "ly" =>
        \A i \in 1..Len(str) :
            (str[i] = "t" /\ MidGroup(i)) =>
                LET m == NotesBefore(i)
                    g == GroupStart(m)
                IN  /\ m - g \in { 0, 1 }
                    /\ ~(ErrReported /\ song = i)
                    /\ (pc = "prefix" /\ song = i + 1)
                           => in_triplet /\ notes_in_triplet = m - g + 1
                    /\ Len(OutNotes) >= m + 1
                           => out[NoteIndex(m + 1) - 1].k # "tuplet_open"
                    /\ Len(OutNotes) >= g + 2 => ClosesAfterThird(g)

\* a 't' was decoded after the first note of a group, and the group's third
\* note was written
C17_Witness ==
    /\ conv = "ly"
    /\ pc = "done"
    /\ \E i \in 1..Len(str) :
        /\ str[i] = "t"
        /\ MidGroup(i)
        /\ NotesBefore(i) = GroupStart(NotesBefore(i))
        /\ Len(OutNotes) >= GroupStart(NotesBefore(i)) + 2

-----------------------------------------------------------------------------
(* Accidentals.                                                            *)

\* the positions of the accidentals in the prefix of the k-th note
AccidentalsOf(k) == { i \in PrefixOf(k) : str[i] \in { "#", "b" } }

(* C18: in both converters every note is written with the accidental of    *)
(* the last '#' or 'b' of its own prefix, and with none when its prefix    *)
(* holds neither, whatever the accidentals of the notes before it.         *)
C18_AccidentalOfOwnPrefix ==
    \A k \in 1..Len(OutNotes) :
        LET as == AccidentalsOf(k)
        IN  OutNotes[k].accidental =
                (IF as = {} THEN ""
                 ELSE IF conv = "ly" THEN get_lilypond_accidental(str[Max(as)])
                 ELSE get_pmx_accidental(str[Max(as)]))

\* a note with two different accidentals in its prefix was followed by a
\* note with none
C18_Witness ==
    /\ pc = "done"
    /\ Len(OutNotes) >= 2
    /\ \E i, j \in AccidentalsOf(1) : str[i] # str[j]
    /\ AccidentalsOf(2) = {}

-----------------------------------------------------------------------------
(* Octaves outside 1-6.                                                    *)

OctaveRange == 1..6

\* get_lilypond_octave has written "Invalid TempleOS octave" and aborted
OctaveReported == err # << >> /\ err[Len(err)].k = "invalid_octave"

(* C19: in the LilyPond converter an octave digit outside 1-6 is accepted  *)
(* and stored as it is: no digit is reported as an invalid note and the    *)
(* octave is always that of the last octave digit decoded.  The converter  *)
(* fails only when it renders a note while the octave in effect is outside *)
(* 1-6, so not when a digit in 1-6 has replaced it before the note.        *)
C19_OutOfRangeOctaveStored ==
    conv = "ly" =>
        /\ octave = OctaveAt(song)
        /\ ErrReported => CharAt(song) \notin Digits
        /\ pc = "aborted" <=> OctaveReported
        /\ pc = "aborted" =>
               /\ CharAt(song - 1) \in PitchLetters
               /\ OctaveAt(song - 1) \notin OctaveRange
               /\ err[Len(err)].octave = OctaveAt(song - 1)

\* a digit outside 1-6 was decoded, a digit in 1-6 replaced it, and the note
\* after them was written with no failure
C19_Witness ==
    /\ conv = "ly"
    /\ pc = "done"
    /\ err = << >>
    /\ \E i \in 1..Len(str) :
        /\ IsOctaveDigit(i)
        /\ DigitValue(str[i]) \notin OctaveRange
        /\ Len(OutNotes) > NotesBefore(i)

(* C20, as claimed: in both converters a note whose octave is outside 1-6  *)
(* is never written, and reaching such a note is reported as an error.     *)
C20_OutOfRangeOctaveReported ==
    /\ \A k \in 1..Len(OutNotes) : OctaveAt(NotePos(k)) \in OctaveRange
    /\ (\E i \in 1..Len(str) :
            i < song /\ str[i] \in PitchLetters /\ OctaveAt(i) \notin OctaveRange)
           => OctaveReported

-----------------------------------------------------------------------------
(* C21, as claimed: the meter top and the meter bottom are positive after  *)
(* any sequence of decoded tokens.                                         *)
C21_MeterPositive == g_meter_top > 0 /\ g_meter_bottom > 0

-----------------------------------------------------------------------------
(* Termination of the loop of main.                                        *)

\* the position the converter has reached in the string
Cursor ==
    IF pc = "prefix" THEN song
    ELSE IF pc \in { "done", "aborted" } \/ next_note = NULL THEN Len(str) + 2
    ELSE next_note

\* what is left to do: the characters after the cursor, then the steps at
\* the cursor
Variant ==
    3 * (Len(str) + 2 - Cursor)
    + (IF pc \in { "start", "returned" } THEN 2 ELSE IF pc = "prefix" THEN 1 ELSE 0)

(* C25: the loop of main terminates: every step of the converter lowers a  *)
(* natural number; a write_note call hands back NULL or a cursor greater   *)
(* than the one it was given, and skipping a line break moves the cursor   *)
(* forward by one.                                                         *)
C25_MainLoopTerminates ==
    /\ [](Variant \in Nat)
    /\ [][/\ Variant' < Variant
          /\ next_note' # next_note
                 => next_note' = NULL \/ next_note' > next_note
          /\ (pc = "prefix" /\ pc' = "returned")
                 => next_note' = NULL \/ next_note' > next_note
          /\ AtLineBreak => next_note' = next_note + 1 /\ pc' = pc]_vars

\* a run over two lines with two notes has ended
C25_Witness ==
    /\ pc = "done"
    /\ err = << >>
    /\ Len(OutNotes) >= 2
    /\ AfterLineBreak(2)

-----------------------------------------------------------------------------
(* The two converters on the same input.                                   *)

\* position i of the prefix of the k-th note holds c
PrefixHolds(k, c) == \E i \in PrefixOf(k) : str[i] = c

\* notes_in_triplet of godsong2lilypond.c after the k-th note, from the
\* input alone
RECURSIVE LyTripletCount(_)
LyTripletCount(k) ==
    IF k = 0 THEN 0
    ELSE LET prev == LyTripletCount(k - 1)
             n == IF prev > 0 \/ PrefixHolds(k, "t") THEN prev + 1 ELSE prev
         IN  IF n = 3 THEN 0 ELSE n

\* godsong2lilypond.c opens a tuplet bracket on the k-th note
LyOpensOn(k) == LyTripletCount(k - 1) = 0 /\ PrefixHolds(k, "t")

(* C26, as claimed: the two converters mark the same notes: LilyPond opens *)
(* a tuplet bracket on a note exactly when the note is the first counted   *)
(* after a 't' and prints a dot on it exactly when its prefix holds a '.', *)
(* and PMX writes the 'x3' marker and the 'd' marker on exactly the same   *)
(* notes.                                                                  *)
C26_SameMarks ==
    \A k \in 1..Len(OutNotes) :
        /\ conv = "ly" =>
               /\ out[NoteIndex(k) - 1].k = "tuplet_open" <=> LyOpensOn(k)
               /\ OutNotes[k].dots = "." <=> PrefixHolds(k, ".")
        /\ conv = "pmx" =>
               /\ OutNotes[k].duration_modifier = "x3" <=> LyOpensOn(k)
               /\ OutNotes[k].duration_modifier = "d" <=> PrefixHolds(k, ".")

-----------------------------------------------------------------------------
(* C27: in the LilyPond converter the tuplet brackets opened minus the     *)
(* brackets closed is 0 or 1 after any sequence of write_note calls, and   *)
(* it is 1 exactly when in_triplet is true and notes_in_triplet is 1 or 2. *)
C27_BracketBalance ==
    (conv = "ly" /\ pc \in { "start", "returned", "done" } /\ err = << >>) =>
        LET d == CountUpTo("tuplet_open", Len(out))
                     - CountUpTo("tuplet_close", Len(out))
        IN  /\ d \in { 0, 1 }
            /\ d = 1 <=> (in_triplet /\ notes_in_triplet \in { 1, 2 })

\* the second note of a group was written
C27_Witness ==
    /\ conv = "ly"
    /\ pc = "returned"
    /\ err = << >>
    /\ in_triplet
    /\ notes_in_triplet = 2
    /\ out[Len(out) - 1].k = "note"

-----------------------------------------------------------------------------
(* C28: a meter field is one digit: an 'M' token consumes at most one      *)
(* digit for the top and at most one for the bottom and never changes the  *)
(* octave; a digit right after the top digit, with no '/', is the bottom:  *)
(* after "M35" the meter is 3/5.                                           *)
C28_MeterFieldsOneDigit ==
    [][AtMeterToken =>
        LET a == song + 1
        IN  /\ octave' = octave
            /\ Cardinality({ j \in a..(song' - 1) : CharAt(j) \in Digits }) <= 2
            /\ (CharAt(a) \in Digits /\ CharAt(a + 1) \in Digits)
                   => /\ g_meter_top' = DigitValue(CharAt(a))
                      /\ g_meter_bottom' = DigitValue(CharAt(a + 1))
                      /\ song' = a + 2
            /\ (CharAt(a) = "3" /\ CharAt(a + 1) = "5")
                   => g_meter_top' = 3 /\ g_meter_bottom' = 5
            /\ (CharAt(a) \in Digits /\ CharAt(a + 1) = "/"
                /\ CharAt(a + 2) \in Digits)
                   => song' = a + 3
      ]_vars

\* "M35" was processed with the octave set to 3 before it
C28_Witness ==
    /\ str = << "3", "M", "3", "5" >>
    /\ song = 5
    /\ octave = 3
    /\ g_meter_top = 3
    /\ g_meter_bottom = 5

-----------------------------------------------------------------------------
(* Two songs decoded by one process.  The statics of write_note and the    *)
(* meter are the process's, whatever string a call is given; what belongs  *)
(* to a song is its string, its cursor and its output.                     *)

\* the song that waits, at the start of its decoding
WaitingSong(s) ==
    [str |-> s, pc |-> "start", next_note |-> 1, song |-> 1,
     out |-> << [k |-> "header", top |-> 4, bottom |-> 4] >>, err |-> << >>]

InitTwoSongs ==
    /\ conv \in { "ly", "pmx" }
    /\ str \in Strings(TwoChars, MaxTwoLen)
    /\ MainStart
    /\ sess \in { WaitingSong(s) : s \in Strings(TwoChars, MaxTwoLen) }
    /\ GenIdle
    /\ nread = Len(str)
    /\ str_pos = Len(str)
    /\ str_sz = AllocStep

\* between two write_note calls the caller turns to the other song: the
\* strings, cursors and outputs change places, the statics stay
SwitchSong ==
    /\ pc \in { "start", "returned", "done" }
    /\ sess.pc # "done"
    /\ str' = sess.str
    /\ pc' = sess.pc
    /\ next_note' = sess.next_note
    /\ song' = sess.song
    /\ out' = sess.out
    /\ err' = sess.err
    /\ sess' = [str |-> str, pc |-> pc, next_note |-> next_note, song |-> song,
                out |-> out, err |-> err]
    /\ UNCHANGED << conv, in_triplet, notes_in_triplet, tie_status, duration,
                    octave, g_meter_top, g_meter_bottom, tie, dots, accidental,
                    duration_modifier, genvars, readvars >>

NextTwoSongs == Next \/ SwitchSong

SpecTwoSongs == InitTwoSongs /\ [][NextTwoSongs]_vars

(* C22, as claimed: decoding has no hidden shared state: with the calls of *)
(* two songs interleaved, every note of a song is written as when the song *)
(* is decoded alone, in the octave of the last octave digit before it in   *)
(* its own string (4 when there is none) and with the duration of the last *)
(* duration letter before it in its own string (none when there is none).  *)
C22_SongsIndependent ==
    \A k \in 1..Len(OutNotes) :
        LET o == OctaveAt(NotePos(k))
            d == DurationLetterAt(NotePos(k))
        IN  /\ OutNotes[k].octave =
                   (IF conv = "ly" THEN get_lilypond_octave(o) ELSE o)
            /\ OutNotes[k].duration =
                   (IF d = NUL THEN ""
                    ELSE IF conv = "ly" THEN get_lilypond_duration(d)
                    ELSE get_pmx_duration(d))

-----------------------------------------------------------------------------
(* The text of a note read back.                                           *)

TextAt(t, j) == IF j \in 1..Len(t) THEN t[j] ELSE NUL

\* the pitch, the octave and the duration letter read from a LilyPond note:
\* the pitch, "is" or "es", the octave marks, the digits of the duration
ParseLy(t) ==
    LET p == IF TextAt(t, 2) \in { "i", "e" } /\ TextAt(t, 3) = "s" THEN 4 ELSE 2
        m == Max({ n \in 0..3 :
                      \A j \in p..(p + n - 1) : TextAt(t, j) \in { ",", "'" } })
        q == p + m
    IN  [pitch |-> t[1],
         octave |-> IF m = 0 THEN 3
                    ELSE IF TextAt(t, p) = "," THEN 3 - m ELSE 3 + m,
         duration |-> CASE TextAt(t, q) = "1" /\ TextAt(t, q + 1) = "6" -> "s"
                        [] TextAt(t, q) = "1" /\ TextAt(t, q + 1) # "6" -> "w"
                        [] TextAt(t, q) = "2" -> "h"
                        [] TextAt(t, q) = "4" -> "q"
                        [] TextAt(t, q) = "8" -> "e"
                        [] OTHER -> NUL]

\* the same from a PMX note: the pitch, the basic time value, the octave
ParsePmx(t) ==
    [pitch |-> t[1],
     octave |-> IF TextAt(t, 3) \in Digits THEN DigitValue(t[3]) ELSE -1,
     duration |-> CASE TextAt(t, 2) = "0" -> "w"
                    [] TextAt(t, 2) = "2" -> "h"
                    [] TextAt(t, 2) = "4" -> "q"
                    [] TextAt(t, 2) = "8" -> "e"
                    [] TextAt(t, 2) = "1" -> "s"
                    [] OTHER -> NUL]

(* C23: in each dialect the text of a note determines its pitch, its       *)
(* octave and its duration class: read back, the text of every note        *)
(* written in an octave 1-6 and with a duration letter w/h/q/e/s in effect *)
(* gives the pitch letter, the octave digit and the duration letter of the *)
(* input, so two notes that differ in one of them differ in their text.    *)
C23_TextDeterminesNote ==
    \A k \in 1..Len(OutNotes) :
        LET p == NotePos(k)
            r == IF conv = "ly" THEN ParseLy(OutNotes[k].text)
                 ELSE ParsePmx(OutNotes[k].text)
        IN  (OctaveAt(p) \in OctaveRange /\ DurationLetterAt(p) # NUL)
                => /\ r.pitch = tolower(str[p])
                   /\ r.octave = OctaveAt(p)
                   /\ r.duration = DurationLetterAt(p)

\* a sharp sixteenth note in octave 3 (no octave mark in LilyPond) was
\* written
C23_Witness ==
    /\ pc = "done"
    /\ Len(OutNotes) = 1
    /\ OctaveAt(NotePos(1)) = 3
    /\ DurationLetterAt(NotePos(1)) = "s"
    /\ PrefixHolds(1, "#")

-----------------------------------------------------------------------------
(* read_godsong                                                            *)

(* C30: read_godsong never stores through a buffer that is not allocated   *)
(* or is too small, and it returns a NUL-terminated string for every       *)
(* stream, the empty one and one of white space only included: the store   *)
(* of the terminator is never made through NULL, and whenever main goes on *)
(* with the string, the terminator lies inside the buffer.                 *)
C30_ReadSafe ==
    /\ pc \notin { "crashed", "read_null" }
    /\ pc = "start" => str_sz > 0 /\ str_pos < str_sz /\ CharAt(str_pos + 1) = NUL

-----------------------------------------------------------------------------
(* The strings of the generator.                                           *)

\* the notes (pitch letters and rests) of buf after position i and before
\* the next duration letter or the end
NotesAfter(i) ==
    Cardinality({ j \in (i + 1)..Len(buf) :
                    /\ buf[j] \in PitchLetters \cup { "R" }
                    /\ \A m \in (i + 1)..j : buf[m] \notin DurationLetters })

(* C24: in every string godsong() can produce, each 't' is followed by     *)
(* exactly 3 notes and each '.' by exactly 1 note before the next duration *)
(* letter or the end of the string (at the end of every iteration of the   *)
(* loop, and so in the string returned).                                   *)
C24_TripletAndDotExtent ==
    \A i \in 1..Len(buf) :
        /\ buf[i] = "t" => NotesAfter(i) = 3
        /\ buf[i] = "." => NotesAfter(i) = 1

\* the characters both decoders recognise on their own: the tokens of a
\* prefix and the pitch letters (the '/' of a meter is read with its 'M')
Recognised(c) ==
    \/ c \in PitchLetters
    \/ LyPrefixToken(c) /\ PmxPrefixToken(c)
    \/ c = "\n"

\* the pitch letters of a string
PitchCount(t) == Cardinality({ i \in 1..Len(t) : t[i] \in PitchLetters })

(* C29: every string godsong() produces for len 6 or 8 and complexity 0, 1 *)
(* or 2, rests disabled, is decoded to its end by both converters with no  *)
(* invalid-note warning and no abort: it holds only characters the decoder *)
(* recognises, every pitch letter has a duration letter before it, the     *)
(* octave written last and the octave in effect in the converter are 4 or  *)
(* 5, after every iteration the string ends with a pitch letter, and when  *)
(* the converter is done it has written one note per pitch letter.         *)
C29_GeneratedSongDecodes ==
    /\ \A i \in 1..Len(buf) :
          \/ Recognised(buf[i])
          \/ buf[i] = "/" /\ i > 2 /\ buf[i - 2] = "M"
    /\ \A i \in 1..Len(buf) :
          buf[i] \in PitchLetters
              => \E j \in 1..(i - 1) : buf[j] \in DurationLetters
    /\ g_octave_old \in { 4, 5 }
    /\ octave \in { 4, 5 }
    /\ iter > 0 => buf[Len(buf)] \in PitchLetters
    /\ err = << >>
    /\ pc # "aborted"
    /\ pc # "gen" => str = Append(buf, "\n")
    /\ pc = "done" => Len(OutNotes) = PitchCount(str)

\* both converters decoded a generated song in 6/8 with a triplet, a dotted
\* note and both octaves to its end
C29_Witness ==
    /\ pc = "done"
    /\ len = 6
    /\ complexity = 2
    /\ \E i \in 1..Len(str) : str[i] = "t"
    /\ \E i \in 1..Len(str) : str[i] = "."
    /\ \E i \in 1..Len(str) : str[i] = "4"
    /\ Len(OutNotes) = PitchCount(str)
    /\ PitchCount(str) > len

(* C31: godsong() never writes at or beyond index 255 of its 256-byte      *)
(* zero-filled buffer, so the string it returns is NUL-terminated: the     *)
(* index after the last character written is at most 255; and this is so   *)
(* because the prefix is at most 5 characters and every iteration writes   *)
(* at most 9 (a duration letter and four notes, each with an octave        *)
(* digit), for each of the at most 8 iterations.                           *)
C31_BufferNeverFilled ==
    /\ buf_pos = Len(buf)
    /\ buf_pos <= BufSize - 1
    /\ buf_pos <= 5 + 9 * iter
    /\ iter <= 8

\* godsong(8, 2) left its loop after an iteration that wrote 9 characters:
\* 's' and four notes that change the octave each time
C31_Witness ==
    /\ iter = len
    /\ len = 8
    /\ complexity = 2
    /\ buf_pos = Len(buf)
    /\ SubSeq(buf, 1, 10) = << "5", "s", "4", "G", "5", "C", "4", "G", "5", "C" >>
    /\ buf_pos > 30

====
